---- MODULE Spec2Model ----
(***************************************************************************)
(* A model of talabat_analysis.py: main() runs six stages in a fixed order *)
(* over one in-memory order table read from a CSV file.  The pandas        *)
(* operations the stages use (groupby/size, rolling/mean, nlargest,        *)
(* sort_values, value_counts) are operators computed the way the library   *)
(* computes them; missing values (NaN / NaT) are dropped by groupby and    *)
(* value_counts, as pandas does by default.                                *)
(***************************************************************************)
EXTENDS Integers, Sequences, FiniteSets

\* ------------------------------------------------------------------ bounds
\* Calendar days an input file of the many-days family may hold orders on.
MaxDay == 8
\* Rows of an input file of the small families.
MaxRows == 3
\* Resolution of a timestamp inside one day (time-of-day values per day).
TicksPerDay == 2

\* ------------------------------------------------------- program constants
\* rolling(window=7)
Window == 7
\* nlargest(5, 'order_count')
TopN == 5

\* ------------------------------------------------------------ value domain
\* A missing timestamp / date (pandas NaT; an empty CSV field).
NaT == -1
\* A CSV timestamp field pd.to_datetime cannot parse.
Unparsable == -2
\* A missing categorical value (pandas NaN; an empty CSV field).
NaN == "NaN"
\* The mean of nothing: a rolling window that is not yet full.
NaNAvg == [num |-> 0, den |-> 0]

\* The columns main() expects in the CSV file.
Columns ==
    {"order_datetime", "city", "order_value", "delivery_time_min",
     "delivery_fee", "payment_method", "promo_code_used", "restaurant_category"}

\* City names in the order Python compares strings (groupby sorts its keys).
CityNames == <<"Abu Dhabi", "Dubai", "Sharjah">>

StrRank(s) == CHOOSE i \in DOMAIN CityNames : CityNames[i] = s

Min(a, b) == IF a <= b THEN a ELSE b

Range(s) == {s[i] : i \in DOMAIN s}

RECURSIVE SumSeq(_)
SumSeq(s) == IF s = <<>> THEN 0 ELSE s[1] + SumSeq(Tail(s))

\* a/b > c/d for rationals with positive denominators
RatGt(a, b) == a.num * b.den > b.num * a.den

\* round(num/den) to the nearest integer, ties to even (float formatting and
\* numpy both round an exactly representable tie to even)
RoundHalfEven(num, den) ==
    LET q == num \div den
        r == num % den
    IN  IF 2 * r < den THEN q
        ELSE IF 2 * r > den THEN q + 1
        ELSE IF q % 2 = 0 THEN q ELSE q + 1

\* The ascending sequence of a finite set of integers (groupby sorts keys).
RECURSIVE SetToSortedSeq(_)
SetToSortedSeq(S) ==
    IF S = {} THEN <<>>
    ELSE LET m == CHOOSE x \in S : \A y \in S : x <= y
         IN  <<m>> \o SetToSortedSeq(S \ {m})

\* Indices of keys (rationals) in descending order of key, equal keys in
\* their original order: sort_values(ascending=False) on a short series.
RECURSIVE ArgSortDesc(_, _)
ArgSortDesc(keys, left) ==
    IF left = {} THEN <<>>
    ELSE LET i == CHOOSE x \in left :
                    \A y \in left : /\ ~RatGt(keys[y], keys[x])
                                    /\ (~RatGt(keys[x], keys[y]) => x <= y)
         IN  <<i>> \o ArgSortDesc(keys, left \ {i})

IntKey(n) == [num |-> n, den |-> 1]

\* ------------------------------------------------------------------- state
VARIABLES
    csv,            \* the input file: [exists, columns, rows]
    df,             \* the order table (rows with the derived order_date)
    daily_orders,   \* the series analyze_daily_trends returned
    city_trends,    \* the series analyze_city_trends returned
    daily_png,      \* daily_orders_trend.png: [state, data]
    city_png,       \* city_trends.png: [state, data]
    console,        \* what has been printed so far
    pc,             \* the stage main() is about to run, "done" or "failed"
    trace,          \* the stages started so far, in order
    error           \* the uncaught exception that ended the run, or "none"

vars == <<csv, df, daily_orders, city_trends, daily_png, city_png,
          console, pc, trace, error>>

\* The order main() calls the stages in.
Stages == <<"load", "explore", "daily", "city", "visualize", "insights">>

\* main() with the Insights Reporter called before the Visualizer
StageAfterInsightsFirst(s) ==
    CASE s = "load"      -> "explore"
      [] s = "explore"   -> "daily"
      [] s = "daily"     -> "city"
      [] s = "city"      -> "insights"
      [] s = "insights"  -> "visualize"
      [] s = "visualize" -> "finish"

\* The stage main() runs after stage s has returned (lines 176-183); after
\* the last one it prints its closing report.
StageAfter(s) ==
    CASE s = "load"      -> "explore"
      [] s = "explore"   -> "daily"
      [] s = "daily"     -> "city"
      [] s = "city"      -> "visualize"
      [] s = "visualize" -> "insights"
      [] s = "insights"  -> "finish"

\* -------------------------------------------------------------- the Loader
\* df['order_datetime'].dt.date: the timestamp truncated to its day
DtDate(ts) == IF ts = NaT THEN NaT ELSE ts \div TicksPerDay

\* pd.to_datetime of a date: midnight of that day
ToDatetime(d) == IF d = NaT THEN NaT ELSE d * TicksPerDay

\* FileNotFoundError, KeyError or a parse error of load_and_prepare_data
LoadError(file) ==
    IF ~file.exists THEN "FileNotFoundError"
    ELSE IF "order_datetime" \notin file.columns THEN "KeyError"
    ELSE IF \E i \in DOMAIN file.rows : file.rows[i].order_datetime = Unparsable
         THEN "ValueError"
    ELSE "none"

\* the table load_and_prepare_data returns
LoadedTable(file) ==
    [i \in DOMAIN file.rows |->
        [order_datetime    |-> file.rows[i].order_datetime,
         order_date        |-> DtDate(file.rows[i].order_datetime),
         city              |-> file.rows[i].city,
         order_value       |-> file.rows[i].order_value,
         delivery_time_min |-> file.rows[i].delivery_time_min,
         delivery_fee      |-> file.rows[i].delivery_fee,
         payment_method    |-> file.rows[i].payment_method]]

\* an exception that is caught and logged: main() goes on to the next stage
FailCaught(kind) ==
    /\ pc' = StageAfter(pc)
    /\ error' = kind

Fail(kind) ==
    /\ pc' = "failed"
    /\ error' = kind

Printed(label) == label \in console.printed

load_and_prepare_data ==
    /\ pc = "load"
    /\ trace' = Append(trace, "load")
    /\ IF LoadError(csv) # "none"
       THEN /\ Fail(LoadError(csv))
            /\ UNCHANGED <<df, console>>
       ELSE /\ df' = LoadedTable(csv)
            /\ console' = [console EXCEPT
                  !.printed = @ \cup {"Dataset loaded"},
                  !.loaded_rows = Len(df'),
                  !.loaded_days =
                      Cardinality({df'[i].order_date : i \in DOMAIN df'})]
            /\ pc' = StageAfter("load")
            /\ UNCHANGED error
    /\ UNCHANGED <<csv, daily_orders, city_trends, daily_png, city_png>>

\* ------------------------------------------------------------ the Explorer
\* (df['delivery_time_min'] <= 0).sum()
NonPositiveDeliveryTimes(table) ==
    Cardinality({i \in DOMAIN table : table[i].delivery_time_min <= 0})

ZeroOrderValues(table) ==
    Cardinality({i \in DOMAIN table : table[i].order_value = 0})

NegativeDeliveryTimes(table) ==
    Cardinality({i \in DOMAIN table : table[i].delivery_time_min < 0})

NegativeDeliveryFees(table) ==
    Cardinality({i \in DOMAIN table : table[i].delivery_fee < 0})

explore_data ==
    /\ pc = "explore"
    /\ trace' = Append(trace, "explore")
    /\ IF "order_value" \notin csv.columns
       THEN /\ Fail("KeyError")
            /\ UNCHANGED console
       ELSE IF "delivery_time_min" \notin csv.columns
       THEN /\ Fail("KeyError")
            /\ console' = [console EXCEPT
                  !.printed = @ \cup {"Zero order values"},
                  !.zero_values = ZeroOrderValues(df)]
       ELSE IF "delivery_fee" \notin csv.columns
       THEN /\ Fail("KeyError")
            /\ console' = [console EXCEPT
                  !.printed = @ \cup {"Zero order values",
                                      "Negative delivery times"},
                  !.zero_values = ZeroOrderValues(df),
                  !.neg_times = NegativeDeliveryTimes(df)]
       ELSE /\ console' = [console EXCEPT
                  !.printed = @ \cup {"Zero order values",
                                      "Negative delivery times",
                                      "Negative delivery fees"},
                  !.zero_values = ZeroOrderValues(df),
                  !.neg_times = NegativeDeliveryTimes(df),
                  !.neg_fees = NegativeDeliveryFees(df)]
            /\ pc' = StageAfter("explore")
            /\ UNCHANGED error
    /\ UNCHANGED <<csv, df, daily_orders, city_trends, daily_png, city_png>>

\* ---------------------------------------------------- the Daily Aggregator
\* a daily count reindexed over the whole calendar range: one row for every
\* day from the first to the last date, 0 where no order was placed
GroupByDateSizeFilled(table) ==
    LET days == {table[i].order_date : i \in DOMAIN table} \ {NaT}
        keys == SetToSortedSeq({d \in 0..(MaxDay + 3) :
                    \E a \in days, b \in days : a <= d /\ d <= b})
    IN  [k \in DOMAIN keys |->
            [order_date  |-> keys[k],
             order_count |-> Cardinality({i \in DOMAIN table :
                                             table[i].order_date = keys[k]})]]

\* df.groupby('order_date').size().reset_index(name='order_count'): one row
\* per distinct non-missing date, ascending; rows with a NaT date are dropped
GroupByDateSize(table) ==
    LET keys == SetToSortedSeq({table[i].order_date : i \in DOMAIN table} \ {NaT})
    IN  [k \in DOMAIN keys |->
            [order_date  |-> keys[k],
             order_count |-> Cardinality({i \in DOMAIN table :
                                             table[i].order_date = keys[k]})]]

\* the running window sum after i observations: each step adds the new
\* observation and removes the one that left the window
RECURSIVE RollingSum(_, _, _)
RollingSum(counts, w, i) ==
    IF i = 0 THEN 0
    ELSE RollingSum(counts, w, i - 1) + counts[i]
         - (IF i > w THEN counts[i - w] ELSE 0)

\* rolling(window=w, min_periods=1): a mean of however many observations the
\* window holds so far
RollingMeanMinPeriods1(counts, w) ==
    [i \in DOMAIN counts |->
        [num |-> RollingSum(counts, w, i), den |-> Min(i, w)]]

\* counts.rolling(window=w).mean(): NaN until the window holds w observations
RollingMean(counts, w) ==
    [i \in DOMAIN counts |->
        IF i < w THEN NaNAvg
        ELSE [num |-> RollingSum(counts, w, i), den |-> w]]

\* the series analyze_daily_trends builds (lines 57-61)
DailySeries(table) ==
    LET grouped == GroupByDateSize(table)
        counts  == [k \in DOMAIN grouped |-> grouped[k].order_count]
        rolling == RollingMean(counts, Window)
    IN  [k \in DOMAIN grouped |->
            [order_date  |-> ToDatetime(grouped[k].order_date),
             order_count |-> grouped[k].order_count,
             rolling_avg |-> rolling[k]]]

\* series.head(n): the first n rows, whatever their counts
NLargestHead(n, series) ==
    [k \in 1..Min(n, Len(series)) |->
        [order_date  |-> series[k].order_date,
         order_count |-> series[k].order_count]]

\* series.nlargest(n, 'order_count')[['order_date', 'order_count']]: the n
\* rows with the largest counts, largest first, equal counts in series order
NLargest(n, series) ==
    LET keys  == [k \in DOMAIN series |-> IntKey(series[k].order_count)]
        order == ArgSortDesc(keys, DOMAIN series)
    IN  [k \in 1..Min(n, Len(series)) |->
            [order_date  |-> series[order[k]].order_date,
             order_count |-> series[order[k]].order_count]]

\* analyze_daily_trends, leaving table_after as the order table
DailyTrendsStep(table_after) ==
    /\ pc = "daily"
    /\ trace' = Append(trace, "daily")
    /\ daily_orders' = DailySeries(df)
    /\ console' = [console EXCEPT
          !.printed = @ \cup {"Total days", "Top 5 busiest days"},
          !.total_days = Len(daily_orders'),
          !.top5 = NLargest(TopN, daily_orders')]
    /\ df' = table_after
    /\ pc' = StageAfter("daily")
    /\ UNCHANGED <<csv, city_trends, daily_png, city_png, error>>

\* df['order_date'] = pd.to_datetime(df['order_date']): the conversion
\* written into the order table itself
ToDatetimeInPlace(table) ==
    [i \in DOMAIN table |->
        [table[i] EXCEPT !.order_date = ToDatetime(table[i].order_date)]]

analyze_daily_trends_inplace == DailyTrendsStep(ToDatetimeInPlace(df))

analyze_daily_trends == DailyTrendsStep(df)

\* ----------------------------------------------------- the City Aggregator
\* df.groupby('city')['order_date'].count(): per city, the rows whose date is
\* not missing
GroupByCityCountDates(table) ==
    LET present == {table[i].city : i \in DOMAIN table} \ {NaN}
        ranks   == SetToSortedSeq({StrRank(c) : c \in present})
    IN  [k \in DOMAIN ranks |->
            [city  |-> CityNames[ranks[k]],
             count |-> Cardinality({i \in DOMAIN table :
                                       /\ table[i].city = CityNames[ranks[k]]
                                       /\ table[i].order_date # NaT})]]

\* df.groupby('city').size(): one entry per distinct non-missing city, in
\* city order; rows with a NaN city are dropped
GroupByCitySize(table) ==
    LET present == {table[i].city : i \in DOMAIN table} \ {NaN}
        ranks   == SetToSortedSeq({StrRank(c) : c \in present})
    IN  [k \in DOMAIN ranks |->
            [city  |-> CityNames[ranks[k]],
             count |-> Cardinality({i \in DOMAIN table :
                                       table[i].city = CityNames[ranks[k]]})]]

\* .sort_values(ascending=False) of a series of counts
SortCountsDesc(series) ==
    LET keys  == [k \in DOMAIN series |-> IntKey(series[k].count)]
        order == ArgSortDesc(keys, DOMAIN series)
    IN  [k \in DOMAIN series |-> series[order[k]]]

\* df.groupby(['order_date', 'city']).size().reset_index(name='order_count'):
\* one row per observed (date, city) pair, by date then city; a row with a
\* missing date or a missing city belongs to no group
GroupByDateCitySize(table) ==
    LET n     == Len(CityNames) + 1
        codes == {table[i].order_date * n + StrRank(table[i].city) :
                     i \in {j \in DOMAIN table : /\ table[j].order_date # NaT
                                                 /\ table[j].city # NaN}}
        keys  == SetToSortedSeq(codes)
    IN  [k \in DOMAIN keys |->
            LET d == keys[k] \div n
                c == CityNames[keys[k] % n]
            IN  [order_date  |-> d,
                 city        |-> c,
                 order_count |-> Cardinality({i \in DOMAIN table :
                                    /\ table[i].order_date = d
                                    /\ table[i].city = c})]]

\* the series analyze_city_trends builds (lines 86-87)
CityTrends(table) ==
    LET grouped == GroupByDateCitySize(table)
    IN  [k \in DOMAIN grouped |->
            [order_date  |-> ToDatetime(grouped[k].order_date),
             city        |-> grouped[k].city,
             order_count |-> grouped[k].order_count]]

\* per city, the sum of its rows' counts over the number of dates in the
\* whole series
GroupByCityMeanAllDays(series) ==
    LET ranks == SetToSortedSeq({StrRank(series[k].city) : k \in DOMAIN series})
    IN  [r \in DOMAIN ranks |->
            LET c    == CityNames[ranks[r]]
                mine == SelectSeq(series, LAMBDA e : e.city = c)
            IN  [city |-> c,
                 mean |-> [num |-> SumSeq([k \in DOMAIN mine |->
                                              mine[k].order_count]),
                           den |-> Cardinality({series[k].order_date :
                                                   k \in DOMAIN series})]]]

\* city_trends.groupby('city')['order_count'].mean(): per city, the sum of
\* its rows' counts over the number of its rows
GroupByCityMean(series) ==
    LET ranks == SetToSortedSeq({StrRank(series[k].city) : k \in DOMAIN series})
    IN  [r \in DOMAIN ranks |->
            LET c    == CityNames[ranks[r]]
                mine == SelectSeq(series, LAMBDA e : e.city = c)
            IN  [city |-> c,
                 mean |-> [num |-> SumSeq([k \in DOMAIN mine |->
                                              mine[k].order_count]),
                           den |-> Len(mine)]]]

\* .sort_values(ascending=False) of a series of means
SortMeansDesc(series) ==
    LET keys  == [k \in DOMAIN series |-> series[k].mean]
        order == ArgSortDesc(keys, DOMAIN series)
    IN  [k \in DOMAIN series |-> series[order[k]]]

\* analyze_city_trends, leaving table_after as the order table
CityTrendsStep(table_after) ==
    /\ pc = "city"
    /\ trace' = Append(trace, "city")
    /\ IF "city" \notin csv.columns
       THEN /\ Fail("KeyError")
            /\ UNCHANGED <<city_trends, console, df>>
       ELSE /\ city_trends' = CityTrends(df)
            /\ console' = [console EXCEPT
                  !.printed = @ \cup {"Total orders by city",
                                      "Average daily orders per city"},
                  !.city_stats = SortCountsDesc(GroupByCitySize(df)),
                  !.avg_daily_city =
                      SortMeansDesc(GroupByCityMean(city_trends'))]
            /\ df' = table_after
            /\ pc' = StageAfter("city")
            /\ UNCHANGED error
    /\ UNCHANGED <<csv, daily_orders, daily_png, city_png>>

analyze_city_trends == CityTrendsStep(df)

\* ----------------------------------------------------------- the Visualizer
Absent == [state |-> "absent", data |-> <<>>]

\* a file savefig was writing when it failed: missing or half-written
Partial == [state |-> "partial", data |-> <<>>]

\* plt.savefig of a chart drawn from series
Saved(series) == [state |-> "written", data |-> series]

\* create_visualizations(daily_arg, city_arg): chart 1 is drawn and saved,
\* then chart 2; a rendering or I/O error in either is not caught
VisualizeStep(daily_arg, city_arg) ==
    /\ pc = "visualize"
    /\ trace' = Append(trace, "visualize")
    /\ \E outcome \in {"ok", "chart1_failed", "chart2_failed"} :
         \E left \in {Absent, Partial} :
           CASE outcome = "chart1_failed" ->
                  /\ daily_png' = left
                  /\ Fail("RenderError")
                  /\ UNCHANGED <<city_png, console>>
             [] outcome = "chart2_failed" ->
                  /\ daily_png' = Saved(daily_arg)
                  /\ city_png' = left
                  /\ Fail("RenderError")
                  /\ console' = [console EXCEPT
                        !.printed = @ \cup {"Daily orders trend plot saved"}]
             [] outcome = "ok" ->
                  /\ daily_png' = Saved(daily_arg)
                  /\ city_png' = Saved(city_arg)
                  /\ console' = [console EXCEPT
                        !.printed = @ \cup {"Daily orders trend plot saved",
                                            "City trends plot saved"}]
                  /\ pc' = StageAfter("visualize")
                  /\ UNCHANGED error
    /\ UNCHANGED <<csv, df, daily_orders, city_trends>>

create_visualizations == VisualizeStep(daily_orders, city_trends)

\* ----------------------------------------------------- the Insights Reporter
\* df['payment_method'].value_counts(): one entry per distinct non-missing
\* value (NaN is dropped), largest count first, equal counts in order of
\* first appearance
ValueCounts(table) ==
    LET present == {table[i].payment_method : i \in DOMAIN table} \ {NaN}
        first(m) == CHOOSE i \in DOMAIN table :
                       /\ table[i].payment_method = m
                       /\ \A j \in 1..(i - 1) : table[j].payment_method # m
        firsts  == SetToSortedSeq({first(m) : m \in present})
        counted == [k \in DOMAIN firsts |->
                      [method |-> table[firsts[k]].payment_method,
                       count  |-> Cardinality({i \in DOMAIN table :
                                     table[i].payment_method =
                                         table[firsts[k]].payment_method})]]
    IN  SortCountsDesc(counted)

\* the percentage cut, not rounded, to one decimal
PercentTenthsTruncated(count, total) == (count * 1000) \div total

\* f"{count/len(df)*100:.1f}", in tenths of a percent
PercentTenths(count, total) == RoundHalfEven(count * 1000, total)

\* the lines printed under "Payment Methods:" (lines 153-155)
PaymentReport(table) ==
    LET dist == ValueCounts(table)
    IN  [k \in DOMAIN dist |->
            [method |-> dist[k].method,
             count  |-> dist[k].count,
             pct    |-> PercentTenths(dist[k].count, Len(table))]]

\* analyze_business_insights, leaving table_after as the order table; the
\* promo-code and restaurant-category distributions are printed after the
\* payment methods and are recorded by their headings only
InsightsStep(table_after) ==
    /\ pc = "insights"
    /\ trace' = Append(trace, "insights")
    /\ IF "payment_method" \notin csv.columns
       THEN /\ Fail("KeyError")
            /\ UNCHANGED <<console, df>>
       ELSE IF "promo_code_used" \notin csv.columns
       THEN /\ Fail("KeyError")
            /\ console' = [console EXCEPT
                  !.printed = @ \cup {"Payment Methods"},
                  !.payment_dist = PaymentReport(df)]
            /\ UNCHANGED df
       ELSE IF "restaurant_category" \notin csv.columns
       THEN /\ Fail("KeyError")
            /\ console' = [console EXCEPT
                  !.printed = @ \cup {"Payment Methods", "Promo Code Usage"},
                  !.payment_dist = PaymentReport(df)]
            /\ UNCHANGED df
       ELSE /\ console' = [console EXCEPT
                  !.printed = @ \cup {"Payment Methods", "Promo Code Usage",
                                      "Top Restaurant Categories"},
                  !.payment_dist = PaymentReport(df)]
            /\ df' = table_after
            /\ pc' = StageAfter("insights")
            /\ UNCHANGED error
    /\ UNCHANGED <<csv, daily_orders, city_trends, daily_png, city_png>>

analyze_business_insights == InsightsStep(df)

\* main()'s closing report (lines 185-191)
main_report ==
    /\ pc = "finish"
    /\ console' = [console EXCEPT !.printed = @ \cup {"ANALYSIS COMPLETED"}]
    /\ pc' = "done"
    /\ UNCHANGED <<csv, df, daily_orders, city_trends, daily_png, city_png,
                   trace, error>>

\* ------------------------------------------------------------- input files
DefaultRow(ts) ==
    [order_datetime    |-> ts,
     city              |-> "Dubai",
     order_value       |-> 20,
     delivery_time_min |-> 30,
     delivery_fee      |-> 5,
     payment_method    |-> "Card"]

File(rows) == [exists |-> TRUE, columns |-> Columns, rows |-> rows]

\* every sequence of at most MaxRows rows drawn from a set of rows
Tables(rowset) == UNION {[1..n -> rowset] : n \in 0..MaxRows}

\* Files with orders on many days: day d holds cnt[d] orders (0: a gap in the
\* calendar); a day's first order comes in descending day order, its second
\* after all the first ones, so the file is not sorted by date.
RECURSIVE DayRows(_, _)
DayRows(cnt, d) ==
    IF d = 0 THEN <<>>
    ELSE (IF cnt[d] >= 1 THEN <<DefaultRow(d * TicksPerDay)>> ELSE <<>>)
         \o DayRows(cnt, d - 1)
         \o (IF cnt[d] >= 2
             THEN <<DefaultRow(d * TicksPerDay + (TicksPerDay - 1))>>
             ELSE <<>>)

ManyDaysFiles == {File(DayRows(cnt, MaxDay)) : cnt \in [1..MaxDay -> 0..2]}

\* Rows that differ in date (two on day 1, one on day 3, one with no
\* timestamp) and city (one with none).
CityRows ==
    {[DefaultRow(ts) EXCEPT !.city = c] :
        ts \in {NaT, TicksPerDay + 1, 3 * TicksPerDay},
        c \in {NaN, "Dubai", "Sharjah"}}

\* Rows that differ in payment method (one with none).
PaymentRows ==
    {[DefaultRow(TicksPerDay) EXCEPT !.payment_method = p] :
        p \in {NaN, "Cash", "Card", "Wallet"}}

\* Rows that differ in the three values the Explorer checks.
QualityRows ==
    {[DefaultRow(TicksPerDay) EXCEPT !.order_value = q[1],
                                     !.delivery_time_min = q[2],
                                     !.delivery_fee = q[3]] :
        q \in {<<20, 30, 5>>, <<0, 30, 5>>, <<20, -5, 5>>,
               <<20, 30, -1>>, <<20, 0, 0>>, <<0, -5, -1>>}}

\* A row whose timestamp cannot be parsed, and one that is fine.
BrokenRows == {DefaultRow(Unparsable), DefaultRow(TicksPerDay)}

\* Files that are missing, lack one column, or hold the given rows.
Broken(tables) ==
    {[exists |-> e, columns |-> Columns \ m, rows |-> t] :
        e \in BOOLEAN,
        m \in {{}} \cup {{c} : c \in Columns},
        t \in tables}

InputFiles ==
    ManyDaysFiles
        \cup {File(t) : t \in Tables(CityRows) \cup Tables(PaymentRows)
                                \cup Tables(QualityRows)}
        \cup Broken(Tables(BrokenRows))

\* every sequence of at most two rows drawn from a set of rows
Pairs(rowset) ==
    {<<>>} \cup {<<a>> : a \in rowset} \cup {<<a, b>> : a \in rowset, b \in rowset}

\* The files of at most two rows.
ShortFiles ==
    {File(t) : t \in Pairs(CityRows)} \cup Broken(Pairs(BrokenRows))

\* -------------------------------------------------------------- the program
InitWith(files) ==
    /\ csv \in files
    /\ df = <<>>
    /\ daily_orders = <<>>
    /\ city_trends = <<>>
    /\ daily_png = Absent
    /\ city_png = Absent
    /\ console = [printed |-> {}, loaded_rows |-> 0, loaded_days |-> 0,
                  zero_values |-> 0, neg_times |-> 0, neg_fees |-> 0,
                  total_days |-> 0, top5 |-> <<>>, city_stats |-> <<>>,
                  avg_daily_city |-> <<>>, payment_dist |-> <<>>]
    /\ pc = "load"
    /\ trace = <<>>
    /\ error = "none"

Init == InitWith(InputFiles)

Next ==
    \/ load_and_prepare_data
    \/ explore_data
    \/ analyze_daily_trends
    \/ analyze_city_trends
    \/ create_visualizations
    \/ analyze_business_insights
    \/ main_report

Spec == Init /\ [][Next]_vars

\* main() is one synchronous thread: a stage that can run does run.  The
\* runs over the files of at most two rows.
FairSpec == InitWith(ShortFiles) /\ [][Next]_vars /\ WF_vars(Next)

\* ------------------------------------------------------------- properties
Started(s) == \E i \in DOMAIN trace : trace[i] = s

\* stage s was started and did not fail
Completed(s) ==
    /\ Started(s)
    /\ ~(pc = "failed" /\ trace[Len(trace)] = s)

IsPrefix(a, b) ==
    /\ Len(a) <= Len(b)
    /\ \A i \in DOMAIN a : a[i] = b[i]

\* the calendar day of a timestamp of a derived series
DayOf(ts) == ts \div TicksPerDay

\* the distinct non-missing dates of the order table
OrderDays == {df[i].order_date : i \in DOMAIN df} \ {NaT}

RowsOn(d) == {i \in DOMAIN df : df[i].order_date = d}

CountsOf(series) == [k \in DOMAIN series |-> series[k].order_count]

\* the daily series is sorted by date, strictly ascending
DailyAscending ==
    \A k \in 1..(Len(daily_orders) - 1) :
        daily_orders[k].order_date < daily_orders[k + 1].order_date

\* C1: in the daily series (sorted by date ascending) the rolling average at
\* 0-based index i is null when i < 6 and otherwise is the arithmetic mean of
\* the 7 order counts at indices i-6..i, whatever calendar days those rows are.
C1_RollingAverage ==
    Completed("daily") =>
        /\ DailyAscending
        /\ \A k \in DOMAIN daily_orders :
              LET i   == k - 1
                  avg == daily_orders[k].rolling_avg
              IN  IF i < 6
                  THEN avg = NaNAvg
                  ELSE /\ avg.den > 0
                       /\ avg.num * 7 =
                            avg.den * SumSeq(SubSeq(CountsOf(daily_orders),
                                                    k - 6, k))

\* a finished run whose seventh row closes a window of 7 rows that spans 8
\* calendar days, with unequal counts: 10 orders in the window
C1_Witness ==
    /\ pc = "done"
    /\ Len(daily_orders) = 7
    /\ daily_orders[6].rolling_avg = NaNAvg
    /\ daily_orders[7].rolling_avg = [num |-> 10, den |-> 7]
    /\ DayOf(daily_orders[7].order_date) - DayOf(daily_orders[1].order_date) = 7
    /\ daily_orders[1].order_count # daily_orders[2].order_count

\* C2 as stated: the per-city totals sum to the row count of the order table,
\* also when rows have no city.
C2_Original ==
    Printed("Total orders by city") =>
        SumSeq([k \in DOMAIN console.city_stats |->
                   console.city_stats[k].count]) = Len(df)

\* C2 (amended): the per-city totals sum to the number of rows whose city is
\* not missing, which is the row count exactly when no row lacks a city; they
\* are listed largest first, one entry per distinct city.
C2_CityTotals ==
    Printed("Total orders by city") =>
        LET stats == console.city_stats
            total == SumSeq([k \in DOMAIN stats |-> stats[k].count])
            named == {i \in DOMAIN df : df[i].city # NaN}
        IN  /\ total = Cardinality(named)
            /\ (total = Len(df)) <=> (named = DOMAIN df)
            /\ \A k \in DOMAIN stats :
                  stats[k].count =
                      Cardinality({i \in DOMAIN df : df[i].city = stats[k].city})
            /\ {stats[k].city : k \in DOMAIN stats} = {df[i].city : i \in named}
            /\ Len(stats) = Cardinality({df[i].city : i \in named})
            /\ \A k \in 1..(Len(stats) - 1) : stats[k].count >= stats[k + 1].count

\* a city with two orders, one of them without a date, and a row without a
\* city, in a run that finished: the totals sum to 2 of 3 rows
C2_Witness ==
    /\ pc = "done"
    /\ Len(df) = 3
    /\ Len(console.city_stats) = 1
    /\ console.city_stats[1].count = 2
    /\ \E i \in DOMAIN df : df[i].city = NaN
    /\ \E i \in DOMAIN df : df[i].city # NaN /\ df[i].order_date = NaT

PaymentCounts == [k \in DOMAIN console.payment_dist |->
                     console.payment_dist[k].count]

PaymentPercents == [k \in DOMAIN console.payment_dist |->
                       console.payment_dist[k].pct]

Abs(n) == IF n < 0 THEN -n ELSE n

\* C3 as stated: the payment-method counts sum to the row count and the
\* printed percentages sum to 100 within rounding (0.05 per printed line),
\* for every order table (one with no rows prints no percentage at all).
C3_Original ==
    Completed("insights") =>
        /\ SumSeq(PaymentCounts) = Len(df)
        /\ Len(df) > 0 =>
              2 * Abs(SumSeq(PaymentPercents) - 1000)
                 <= Len(console.payment_dist)

\* C3 (amended): the payment-method counts sum to the number of rows whose
\* payment_method is not missing; each printed percentage is count / row count
\* x 100 rounded to one decimal, so the percentages sum, within rounding, to
\* 100 x (rows with a payment method) / (row count): to 100 exactly when the
\* table is not empty and no row lacks a payment method.
C3_PaymentShares ==
    Printed("Payment Methods") =>
        LET dist  == console.payment_dist
            paid  == {i \in DOMAIN df : df[i].payment_method # NaN}
            total == Len(df)
        IN  /\ SumSeq(PaymentCounts) = Cardinality(paid)
            /\ \A k \in DOMAIN dist :
                  /\ dist[k].count =
                        Cardinality({i \in DOMAIN df :
                                        df[i].payment_method = dist[k].method})
                  /\ 2 * Abs(dist[k].pct * total - 1000 * dist[k].count) <= total
            /\ 2 * Abs(SumSeq(PaymentPercents) * total - 1000 * Cardinality(paid))
                  <= Len(dist) * total
            /\ (total > 0 /\ paid = DOMAIN df) =>
                  2 * Abs(SumSeq(PaymentPercents) - 1000) <= Len(dist)

\* three rows, two methods and a row without one: 33.3% and 33.3% are printed
C3_Witness ==
    /\ pc = "done"
    /\ Len(df) = 3
    /\ Len(console.payment_dist) = 2
    /\ \E i \in DOMAIN df : df[i].payment_method = NaN
    /\ SumSeq(PaymentPercents) = 666

\* C4 as stated: one entry per distinct order_date, no duplicates, and every
\* calendar day from the first to the last order_date is an entry.
C4_Original ==
    Completed("daily") =>
        /\ Len(daily_orders) = Cardinality(OrderDays)
        /\ DailyAscending
        /\ \A a \in OrderDays, b \in OrderDays :
              \A d \in a..b :
                 \E k \in DOMAIN daily_orders :
                    DayOf(daily_orders[k].order_date) = d

\* C4 (amended): the daily series has exactly one entry per distinct
\* non-missing order_date, strictly ascending (no duplicates), so it starts at
\* the minimum and ends at the maximum order_date; each entry counts the rows
\* of its date; a calendar day in between on which no order was placed has no
\* entry (gaps are not filled).
C4_DailyEntries ==
    Completed("daily") =>
        /\ Len(daily_orders) = Cardinality(OrderDays)
        /\ DailyAscending
        /\ {DayOf(daily_orders[k].order_date) : k \in DOMAIN daily_orders}
              = OrderDays
        /\ \A k \in DOMAIN daily_orders :
              /\ daily_orders[k].order_date
                    = DayOf(daily_orders[k].order_date) * TicksPerDay
              /\ daily_orders[k].order_count
                    = Cardinality(RowsOn(DayOf(daily_orders[k].order_date)))
              /\ daily_orders[k].order_count >= 1
        /\ daily_orders # <<>> =>
              /\ \A d \in OrderDays :
                    /\ DayOf(daily_orders[1].order_date) <= d
                    /\ d <= DayOf(daily_orders[Len(daily_orders)].order_date)

\* a finished run whose dates leave a calendar gap, with a row without a date
C4_Witness ==
    /\ pc = "done"
    /\ Len(daily_orders) = 2
    /\ DayOf(daily_orders[2].order_date) - DayOf(daily_orders[1].order_date) > 1
    /\ \E i \in DOMAIN df : df[i].order_date = NaT

\* what the pipeline has done is consistent with the fixed order of stages
C5_Order ==
    /\ IsPrefix(trace, Stages)
    /\ pc \notin {"failed", "done", "finish"} =>
          /\ Len(trace) < Len(Stages)
          /\ pc = Stages[Len(trace) + 1]
    /\ Completed("visualize") =>
          /\ Completed("daily") /\ Completed("city")
          /\ daily_png = [state |-> "written", data |-> daily_orders]
          /\ city_png = [state |-> "written", data |-> city_trends]
          /\ daily_orders = DailySeries(df)
          /\ city_trends = CityTrends(df)
    /\ ~Completed("visualize") => ~Started("insights")
    /\ pc \in {"finish", "done"} =>
          /\ trace = Stages
          /\ error = "none"
    /\ Printed("ANALYSIS COMPLETED") <=> pc = "done"

\* C5: the stages run at most once each, in the order Loader, Explorer, Daily
\* Aggregator, City Aggregator, Visualizer, Insights Reporter; the Visualizer
\* starts after both aggregators and draws exactly the series they returned;
\* the Insights Reporter starts after the Visualizer has completed; and the
\* run eventually ends, normally (all six stages completed) unless a stage
\* failed.
C5_Pipeline == []C5_Order /\ <>(pc \in {"done", "failed"})

\* a run that ended normally with both charts drawn from non-empty series
C5_Witness ==
    /\ pc = "done"
    /\ trace = Stages
    /\ Len(daily_png.data) >= 2
    /\ Len(city_png.data) >= 2

\* the columns each stage reads from the order table
ColumnsRead(s) ==
    CASE s = "load"      -> {"order_datetime"}
      [] s = "explore"   -> {"order_value", "delivery_time_min", "delivery_fee"}
      [] s = "daily"     -> {}
      [] s = "city"      -> {"city"}
      [] s = "visualize" -> {}
      [] s = "insights"  -> {"payment_method", "promo_code_used",
                             "restaurant_category"}

\* every cause of failure ends the run in the stage it occurs in, and a failed
\* run has stopped there
C6_Failed ==
    /\ \A k \in DOMAIN trace :
          (\/ (trace[k] = "load" /\ ~csv.exists)
           \/ (trace[k] = "load" /\
                 \E i \in DOMAIN csv.rows :
                     csv.rows[i].order_datetime = Unparsable)
           \/ ~(ColumnsRead(trace[k]) \subseteq csv.columns))
          => /\ pc = "failed"
             /\ k = Len(trace)
    /\ error # "none" <=> pc = "failed"
    /\ pc = "failed" =>
          /\ trace # <<>>
          /\ IsPrefix(trace, Stages)
          /\ ~Printed("ANALYSIS COMPLETED")
          /\ error = "RenderError" <=> trace[Len(trace)] = "visualize"
    /\ (pc = "failed" /\ error = "RenderError") =>
          /\ ~Started("insights")
          /\ ~Printed("Payment Methods")
          /\ city_png.state # "written"
          /\ Printed("Daily orders trend plot saved") =>
                daily_png = [state |-> "written", data |-> daily_orders]
          /\ ~Printed("Daily orders trend plot saved") =>
                daily_png.state # "written"

\* C6: a failure in any stage (missing or unreadable input, unparsable
\* timestamp, missing column, rendering or output failure) is not caught: the
\* run ends failed in that stage, no later stage runs, none is retried and
\* "ANALYSIS COMPLETED" is not printed; a failure while producing
\* city_trends.png leaves the written daily_orders_trend.png in place and the
\* Insights Reporter unexecuted.
C6_FailFast == []C6_Failed /\ [][pc # "failed"]_vars

\* the city chart failed after the daily chart of a non-empty series was saved
C6_Witness ==
    /\ pc = "failed"
    /\ error = "RenderError"
    /\ daily_png.state = "written"
    /\ Len(daily_png.data) >= 2
    /\ city_png.state = "partial"
    /\ trace = SubSeq(Stages, 1, 5)

\* C7: once load_and_prepare_data has returned, no stage changes the order
\* table: the aggregators' date conversions rewrite the derived series only
\* and no aggregate is written back.
C7_TableImmutable ==
    [][Completed("load") => /\ df' = df
                            /\ df = LoadedTable(csv)]_vars

\* a finished run whose daily series carries converted dates that differ from
\* the dates the order table still holds
C7_Witness ==
    /\ pc = "done"
    /\ df = LoadedTable(csv)
    /\ Len(df) >= 2
    /\ \E k \in DOMAIN daily_orders :
          daily_orders[k].order_date \notin {df[i].order_date : i \in DOMAIN df}

\* C8: explore_data prints the exact number of rows with order_value == 0,
\* with delivery_time_min < 0 and with delivery_fee < 0; such rows are no
\* error: the Explorer completes (given the three columns) and the later
\* stages run on the full, unfiltered table.
C8_QualityCounts ==
    /\ Printed("Zero order values") =>
          console.zero_values =
              Len(SelectSeq(df, LAMBDA r : r.order_value = 0))
    /\ Printed("Negative delivery times") =>
          console.neg_times =
              Len(SelectSeq(df, LAMBDA r : r.delivery_time_min < 0))
    /\ Printed("Negative delivery fees") =>
          console.neg_fees =
              Len(SelectSeq(df, LAMBDA r : r.delivery_fee < 0))
    /\ (Started("explore") /\
          {"order_value", "delivery_time_min", "delivery_fee"}
              \subseteq csv.columns) =>
          /\ Completed("explore")
          /\ Printed("Negative delivery fees")
    /\ Completed("explore") =>
          /\ Len(df) = Len(csv.rows)
          /\ \A i \in DOMAIN df :
                /\ df[i].order_value = csv.rows[i].order_value
                /\ df[i].delivery_time_min = csv.rows[i].delivery_time_min
                /\ df[i].delivery_fee = csv.rows[i].delivery_fee
    /\ Completed("daily") =>
          SumSeq(CountsOf(daily_orders)) =
              Len(SelectSeq(df, LAMBDA r : r.order_date # NaT))
    /\ (pc = "failed" /\ csv.exists /\ csv.columns = Columns
          /\ \A i \in DOMAIN csv.rows :
                csv.rows[i].order_datetime # Unparsable) =>
          error = "RenderError"

\* one zero-value order among positive ones, a negative delivery time, a
\* delivery time of exactly 0 and a negative fee, in a run that finished
C8_Witness ==
    /\ pc = "done"
    /\ Len(df) = 3
    /\ console.zero_values = 1
    /\ console.neg_times = 1
    /\ console.neg_fees = 1
    /\ \E i \in DOMAIN df : df[i].delivery_time_min = 0
    /\ Len(SelectSeq(df, LAMBDA r : r.order_value > 0)) = 2
    /\ SumSeq(CountsOf(daily_orders)) = 3

\* C9: the top-5 report lists min(5, number of distinct days) entries of the
\* daily series, largest counts first, and no unlisted day has a larger count
\* than a listed one.
C9_Top5 ==
    Printed("Top 5 busiest days") =>
        LET top == console.top5
            row(e) == [order_date |-> e.order_date,
                       order_count |-> e.order_count]
            listed == {top[k] : k \in DOMAIN top}
        IN  /\ Len(top) = Min(5, Cardinality(OrderDays))
            /\ Cardinality(listed) = Len(top)
            /\ \A k \in DOMAIN top :
                  \E j \in DOMAIN daily_orders : row(daily_orders[j]) = top[k]
            /\ \A k \in 1..(Len(top) - 1) :
                  top[k].order_count >= top[k + 1].order_count
            /\ \A j \in DOMAIN daily_orders :
                  row(daily_orders[j]) \notin listed =>
                     \A k \in DOMAIN top :
                        daily_orders[j].order_count <= top[k].order_count

\* more than five days, both counts present among the listed days, and a
\* listed day that comes later in the series than an unlisted one
C9_Witness ==
    /\ pc = "done"
    /\ Len(daily_orders) >= 7
    /\ Len(console.top5) = 5
    /\ console.top5[1].order_count = 2
    /\ console.top5[5].order_count = 1
    /\ daily_orders[1].order_count = 1
    /\ console.top5[1].order_date > daily_orders[2].order_date

CityTotalOf(c) ==
    LET e == CHOOSE x \in Range(console.city_stats) : x.city = c
    IN  e.count

\* the (date, city) counts of one date, summed over the cities
TrendsOn(ts) ==
    SumSeq(CountsOf(SelectSeq(city_trends, LAMBDA e : e.order_date = ts)))

\* C10 as stated: a city's mean is its total order count over the number of
\* distinct dates on which it has an order; the (date, city) series holds only
\* pairs with a count of at least 1; for each date its counts sum to the
\* date's count in the daily series.
C10_Original ==
    Printed("Average daily orders per city") =>
        /\ \A k \in DOMAIN console.avg_daily_city :
              LET c == console.avg_daily_city[k].city
                  m == console.avg_daily_city[k].mean
              IN  m.num * Cardinality({df[i].order_date : i \in
                        {j \in DOMAIN df : df[j].city = c}} \ {NaT})
                    = m.den * CityTotalOf(c)
        /\ \A k \in DOMAIN city_trends : city_trends[k].order_count >= 1
        /\ \A k \in DOMAIN daily_orders :
              TrendsOn(daily_orders[k].order_date) = daily_orders[k].order_count

\* C10 (amended): a city's mean is the number of its orders that have a date
\* over the number of distinct dates on which it has an order (not over the
\* days of the daily series); the (date, city) series holds exactly the pairs
\* with a count of at least 1 among rows that have both a date and a city; for
\* each date its counts sum to the number of that date's rows that have a
\* city, which is the date's daily count when none of them lacks one.
C10_CityMeans ==
    Printed("Average daily orders per city") =>
        /\ \A k \in DOMAIN console.avg_daily_city :
              LET c     == console.avg_daily_city[k].city
                  m     == console.avg_daily_city[k].mean
                  dated == {i \in DOMAIN df : /\ df[i].city = c
                                              /\ df[i].order_date # NaT}
              IN  /\ m.den > 0
                  /\ m.num * Cardinality({df[i].order_date : i \in dated})
                        = m.den * Cardinality(dated)
        /\ {console.avg_daily_city[k].city : k \in DOMAIN console.avg_daily_city}
              = {df[i].city : i \in {j \in DOMAIN df : /\ df[j].city # NaN
                                                      /\ df[j].order_date # NaT}}
        /\ \A k \in 1..(Len(console.avg_daily_city) - 1) :
              ~RatGt(console.avg_daily_city[k + 1].mean,
                     console.avg_daily_city[k].mean)
        /\ \A k \in DOMAIN city_trends :
              /\ city_trends[k].order_count >= 1
              /\ city_trends[k].order_count =
                    Cardinality({i \in DOMAIN df :
                        /\ df[i].order_date = DayOf(city_trends[k].order_date)
                        /\ df[i].city = city_trends[k].city})
        /\ \A i \in DOMAIN df :
              (df[i].order_date # NaT /\ df[i].city # NaN) =>
                 Cardinality({k \in DOMAIN city_trends :
                    /\ DayOf(city_trends[k].order_date) = df[i].order_date
                    /\ city_trends[k].city = df[i].city}) = 1
        /\ \A k \in DOMAIN daily_orders :
              LET day   == RowsOn(DayOf(daily_orders[k].order_date))
                  named == {i \in day : df[i].city # NaN}
              IN  /\ TrendsOn(daily_orders[k].order_date) = Cardinality(named)
                  /\ TrendsOn(daily_orders[k].order_date)
                        <= daily_orders[k].order_count
                  /\ named = day =>
                        TrendsOn(daily_orders[k].order_date)
                           = daily_orders[k].order_count

\* a city with two orders on one day and none on the other day of the series:
\* its mean is 2, not 1
C10_Witness ==
    /\ pc = "done"
    /\ Len(daily_orders) = 2
    /\ Len(console.avg_daily_city) = 2
    /\ console.avg_daily_city[1].mean = [num |-> 2, den |-> 1]
    /\ console.avg_daily_city[2].mean = [num |-> 1, den |-> 1]

====
